---- MODULE Spec2Model ----
(***************************************************************************)
(* Feature-engineering pipeline of the e-commerce churn project            *)
(* (src/python/feature_engineering.py with its helpers in                  *)
(* src/python/utils.py), as a state machine: one action per step of the    *)
(* script, the data frames as its variables.                               *)
(*                                                                         *)
(* Encoding.  A timestamp is an integer number of ticks, TicksPerDay ticks *)
(* to the calendar day, so that a transaction has a date and a time of     *)
(* day.  A data frame of transaction lines is a set of line records; a     *)
(* per-customer table is a sequence of row records in the order pandas'    *)
(* groupby gives (ascending customer_id), so that a table can hold a       *)
(* customer twice.  A float that is a quotient is a pair <<num, den>>;     *)
(* a missing float is NaNq, a missing integer is NaN.                      *)
(***************************************************************************)
EXTENDS Integers, Sequences, FiniteSets, TLC

\* ------------------------------------------------------------------ bounds
MaxLines == 2

\* ------------------------------------------------------- input domains
Customers == {1, 2}
Invoices == {"A", "B"}
TimesOfDay == {0, 1}
TicksPerDay == Cardinality(TimesOfDay)
Days == {0, 1, 2}
Quantities == {-1, 2}
Prices == {5}

ObservationEnds == {2}
OutcomeStarts == {1, 2}
MinTenureDays == {0, 1}
MinFrequencies == {1, 2}

NaN == -(2 ^ 15)
NaNq == <<0, 0>>

\* Upstream cleaning stage (not part of the Python sources): the two derived
\* columns of a transaction line.
TotalAmount(quantity, price) == quantity * price
IsReturn(quantity) == quantity < 0

Lines ==
    { [customer_id |-> c, invoice |-> i, invoice_date |-> d * TicksPerDay + t,
       quantity |-> q, price |-> p,
       total_amount |-> TotalAmount(q, p), is_return |-> IsReturn(q)] :
      c \in Customers, i \in Invoices, d \in Days, t \in TimesOfDay,
      q \in Quantities, p \in Prices }

Configs ==
    [observation_end : ObservationEnds, outcome_start : OutcomeStarts,
     min_tenure_days : MinTenureDays, min_frequency : MinFrequencies]

RECURSIVE SubsetsUpTo(_, _)
SubsetsUpTo(S, n) ==
    IF n = 0 THEN {{}}
    ELSE LET smaller == SubsetsUpTo(S, n - 1)
         IN smaller \cup { s \cup {x} : s \in smaller, x \in S }

\* ------------------------------------------------------------- helpers
\* pd.to_datetime('YYYY-MM-DD'): midnight of that day.
to_datetime(day) == day * TicksPerDay

\* pd.Timedelta(days=n)
Timedelta(n) == n * TicksPerDay

\* Timedelta.days: whole days, rounded towards minus infinity.
days(delta) == delta \div TicksPerDay

SetMin(S) == CHOOSE x \in S : \A y \in S : x <= y
SetMax(S) == CHOOSE x \in S : \A y \in S : x >= y

RECURSIVE SortedSeq(_)
SortedSeq(S) ==
    IF S = {} THEN <<>>
    ELSE LET m == SetMin(S) IN <<m>> \o SortedSeq(S \ {m})

RECURSIVE SumAmount(_)
SumAmount(S) ==
    IF S = {} THEN 0
    ELSE LET l == CHOOSE x \in S : TRUE
         IN l.total_amount + SumAmount(S \ {l})

RECURSIVE SumQuantity(_)
SumQuantity(S) ==
    IF S = {} THEN 0
    ELSE LET l == CHOOSE x \in S : TRUE
         IN l.quantity + SumQuantity(S \ {l})

Abs(n) == IF n < 0 THEN -n ELSE n

Range(s) == { s[i] : i \in 1..Len(s) }

\* Lines of one customer / the keys of a groupby('customer_id').
LinesOf(frame, c) == { l \in frame : l.customer_id = c }
GroupKeys(frame) == SortedSeq({ l.customer_id : l \in frame })
nunique_invoice(S) == Cardinality({ l.invoice : l \in S })
min_date(S) == SetMin({ l.invoice_date : l \in S })
max_date(S) == SetMax({ l.invoice_date : l \in S })

\* DataFrame.merge(how='left') on customer_id; `missing` holds the right
\* frame's other columns, all missing.
RECURSIVE MergeLeft(_, _, _)
MergeLeft(left, right, missing) ==
    IF left = <<>> THEN <<>>
    ELSE LET l == Head(left)
             m == SelectSeq(right, LAMBDA r : r.customer_id = l.customer_id)
             rows == IF m = <<>> THEN << l @@ missing >>
                     ELSE [i \in 1..Len(m) |-> l @@ m[i]]
         IN rows \o MergeLeft(Tail(left), right, missing)

\* DataFrame.merge(how='right'): every row of the right frame is kept.
MergeRight(left, right, missing) == MergeLeft(right, left, missing)

\* DataFrame.merge() with the default how='inner'.
RECURSIVE MergeInner(_, _)
MergeInner(left, right) ==
    IF left = <<>> THEN <<>>
    ELSE LET l == Head(left)
             m == SelectSeq(right, LAMBDA r : r.customer_id = l.customer_id)
         IN [i \in 1..Len(m) |-> l @@ m[i]] \o MergeInner(Tail(left), right)

\* ---------------------------------------------------------------- state
VARIABLES
    pc,                 \* the step the script is about to run
    df,                 \* the cleaned transaction lines read from the CSV
    config,             \* the values read from config.yaml
    observation_df, outcome_df,
    eligible_customers, \* the Index of eligible customer ids
    cohort_report,      \* the counts the cohort filter logs
    rfm, behavioral, returns, churn_labels, features,
    error_log,          \* the messages passed to log_error
    error,              \* the exception that ended the script, "" if none
    output_file         \* the rows written to customers_features.csv

vars == <<pc, df, config, observation_df, outcome_df, eligible_customers,
          cohort_report, rfm, behavioral, returns, churn_labels, features,
          error_log, error, output_file>>

NoReport == [logged |-> FALSE, n_total |-> 0, n_eligible |-> 0,
             filtered_out |-> 0, n_tenure_fail |-> 0, n_frequency_fail |-> 0,
             n_both_fail |-> 0]

Init ==
    /\ pc = "split"
    /\ df \in SubsetsUpTo(Lines, MaxLines)
    /\ config \in Configs
    /\ observation_df = {}
    /\ outcome_df = {}
    /\ eligible_customers = <<>>
    /\ cohort_report = NoReport
    /\ rfm = <<>>
    /\ behavioral = <<>>
    /\ returns = <<>>
    /\ churn_labels = <<>>
    /\ features = <<>>
    /\ error_log = {}
    /\ error = ""
    /\ output_file = <<>>

\* ------------------------------------------- Step 2: split and leakage
split_observation(frame, observation_end) ==
    { l \in frame : l.invoice_date < to_datetime(observation_end) }

split_outcome(frame, outcome_start) ==
    { l \in frame : l.invoice_date >= to_datetime(outcome_start) }

split_by_time_window ==
    /\ pc = "split"
    /\ observation_df' = split_observation(df, config.observation_end)
    /\ outcome_df' = split_outcome(df, config.outcome_start)
    /\ pc' = "check_leakage"
    /\ UNCHANGED <<df, config, eligible_customers, cohort_report, rfm,
                   behavioral, returns, churn_labels, features, error_log,
                   error, output_file>>

leakage_detected_strict(obs, outcome) ==
    /\ obs # {}
    /\ outcome # {}
    /\ max_date(obs) > min_date(outcome)

\* obs_max >= outcome_min; the max or min of an empty frame is NaT, and a
\* comparison with NaT is False.
leakage_detected(obs, outcome) ==
    /\ obs # {}
    /\ outcome # {}
    /\ max_date(obs) >= min_date(outcome)

check_data_leakage ==
    /\ pc = "check_leakage"
    /\ IF leakage_detected(observation_df, outcome_df)
       THEN /\ pc' = "aborted"
            /\ error' = "ValueError: Data leakage detected"
       ELSE /\ pc' = "cohort"
            /\ error' = error
    /\ UNCHANGED <<df, config, observation_df, outcome_df, eligible_customers,
                   cohort_report, rfm, behavioral, returns, churn_labels,
                   features, error_log, output_file>>

\* ------------------------------------------------ Step 3: cohort filter
min_acquisition_date(cfg) ==
    to_datetime(cfg.observation_end) - Timedelta(cfg.min_tenure_days)

customer_stats(obs) ==
    [i \in 1..Len(GroupKeys(obs)) |->
        LET c == GroupKeys(obs)[i] IN
        [customer_id |-> c,
         first_purchase |-> min_date(LinesOf(obs, c)),
         n_transactions |-> nunique_invoice(LinesOf(obs, c))]]

frequency_ok_strict(s, cfg) == s.n_transactions > cfg.min_frequency

tenure_ok(s, cfg) == s.first_purchase <= min_acquisition_date(cfg)
frequency_ok(s, cfg) == s.n_transactions >= cfg.min_frequency
tenure_fail(s, cfg) == s.first_purchase > min_acquisition_date(cfg)
frequency_fail(s, cfg) == s.n_transactions < cfg.min_frequency

eligible_index(stats, cfg) ==
    LET kept == SelectSeq(stats,
                    LAMBDA s : tenure_ok(s, cfg) /\ frequency_ok(s, cfg))
    IN [i \in 1..Len(kept) |-> kept[i].customer_id]

either_fail(s, cfg) == tenure_fail(s, cfg) \/ frequency_fail(s, cfg)

both_fail(s, cfg) == tenure_fail(s, cfg) /\ frequency_fail(s, cfg)

n_tenure_fail_of(stats, cfg) ==
    Cardinality({ i \in 1..Len(stats) : tenure_fail(stats[i], cfg) })

n_frequency_fail_of(stats, cfg) ==
    Cardinality({ i \in 1..Len(stats) : frequency_fail(stats[i], cfg) })

n_both_fail_of(stats, cfg) ==
    Cardinality({ i \in 1..Len(stats) : both_fail(stats[i], cfg) })

restrict_to_nobody(obs, eligible) == obs

restrict_to_eligible(obs, eligible) ==
    { l \in obs : l.customer_id \in Range(eligible) }

cohort_filter ==
    /\ pc = "cohort"
    /\ LET stats == customer_stats(observation_df)
           eligible == eligible_index(stats, config)
           n_total == Len(stats)
           n_eligible == Len(eligible)
       IN /\ eligible_customers' = eligible
          /\ observation_df' = restrict_to_eligible(observation_df, eligible)
          /\ IF n_total = 0
             THEN \* filtered_pct = (filtered_out / n_total) * 100
                  /\ pc' = "aborted"
                  /\ error' = "ZeroDivisionError"
                  /\ cohort_report' = cohort_report
             ELSE /\ pc' = "rfm"
                  /\ error' = error
                  /\ cohort_report' =
                        [logged |-> TRUE,
                         n_total |-> n_total,
                         n_eligible |-> n_eligible,
                         filtered_out |-> n_total - n_eligible,
                         n_tenure_fail |-> n_tenure_fail_of(stats, config),
                         n_frequency_fail |->
                             n_frequency_fail_of(stats, config),
                         n_both_fail |-> n_both_fail_of(stats, config)]
    /\ UNCHANGED <<df, config, outcome_df, rfm, behavioral, returns,
                   churn_labels, features, error_log, output_file>>

\* ------------------------------------------------- Step 4: RFM metrics
recency_of(obs_end_date, x) == days(obs_end_date - max_date(x))

monetary_gross_of(x) == SumAmount({ l \in x : l.total_amount > 0 })

rfm_agg(obs, cfg) ==
    [i \in 1..Len(GroupKeys(obs)) |->
        LET c == GroupKeys(obs)[i]
            x == LinesOf(obs, c)
        IN [customer_id |-> c,
            recency |-> recency_of(to_datetime(cfg.observation_end), x),
            frequency |-> nunique_invoice(x),
            monetary_net |-> SumAmount(x),
            monetary_gross |-> monetary_gross_of(x)]]

calculate_rfm ==
    /\ pc = "rfm"
    /\ rfm' = rfm_agg(observation_df, config)
    /\ pc' = "behavioral"
    /\ UNCHANGED <<df, config, observation_df, outcome_df, eligible_customers,
                   cohort_report, behavioral, returns, churn_labels, features,
                   error_log, error, output_file>>

\* ------------------------------------------ Step 5: behavioral features
purchase_lines(obs) == { l \in obs : l.quantity > 0 }

\* One row per customer that has a line with quantity > 0: the mean of its
\* per-invoice quantity sums and the mean quantity of its lines.
basket_metrics(obs) ==
    LET bought == purchase_lines(obs) IN
    [i \in 1..Len(GroupKeys(bought)) |->
        LET c == GroupKeys(bought)[i]
            x == LinesOf(bought, c)
        IN [customer_id |-> c,
            avg_items_per_basket |-> <<SumQuantity(x), nunique_invoice(x)>>,
            avg_units_per_line |-> <<SumQuantity(x), Cardinality(x)>>]]

behavioral_agg(obs) ==
    [i \in 1..Len(GroupKeys(obs)) |->
        LET c == GroupKeys(obs)[i]
            x == LinesOf(obs, c)
        IN [customer_id |-> c,
            first_purchase_date |-> min_date(x),
            last_purchase_date |-> max_date(x)]]

DropFrequency(table) ==
    [i \in 1..Len(table) |->
        [f \in (DOMAIN table[i]) \ {"frequency"} |-> table[i][f]]]

FrequencyOf(table) ==
    [i \in 1..Len(table) |->
        [customer_id |-> table[i].customer_id,
         frequency |-> table[i].frequency]]

temporal_features(table) ==
    [i \in 1..Len(table) |->
        LET r == table[i]
            span == days(r.last_purchase_date - r.first_purchase_date)
        IN r @@ [days_as_customer |-> span,
                 purchase_velocity |-> <<30 * r.frequency, span + 1>>,
                 avg_days_between_purchases |-> <<span + 1, r.frequency>>]]

calculate_behavioral ==
    /\ pc = "behavioral"
    /\ LET merged == MergeLeft(behavioral_agg(observation_df),
                               basket_metrics(observation_df),
                               [avg_items_per_basket |-> NaNq,
                                avg_units_per_line |-> NaNq])
           with_freq == MergeInner(merged, FrequencyOf(rfm))
       IN behavioral' = DropFrequency(temporal_features(with_freq))
    /\ pc' = "returns"
    /\ UNCHANGED <<df, config, observation_df, outcome_df, eligible_customers,
                   cohort_report, rfm, returns, churn_labels, features,
                   error_log, error, output_file>>

\* ---------------------------------------------- Step 6: return metrics
return_lines(obs) == { l \in obs : l.is_return }

return_amount_signed(x) == SumAmount(x)

return_amount_of(x) == Abs(SumAmount(x))

n_return_lines_of(x) == Cardinality(x)

n_return_invoices_of(x) == nunique_invoice(x)

return_invoices(obs) ==
    LET ret == return_lines(obs) IN
    [i \in 1..Len(GroupKeys(ret)) |->
        LET c == GroupKeys(ret)[i]
            x == LinesOf(ret, c)
        IN [customer_id |-> c,
            n_return_invoices |-> n_return_invoices_of(x),
            return_amount |-> return_amount_of(x)]]

merge_returns_inner(ret, freq) == MergeInner(ret, freq)

merge_returns(ret, freq) ==
    MergeRight(ret, freq, [n_return_invoices |-> NaN, return_amount |-> NaN])

fillna(v, fill) == IF v = NaN THEN fill ELSE v

returns_fill(table) ==
    [i \in 1..Len(table) |->
        LET n == fillna(table[i].n_return_invoices, 0)
        IN [table[i] EXCEPT !.n_return_invoices = n,
                            !.return_amount = fillna(@, 0)]
           @@ [return_rate |-> <<n, table[i].frequency>>,
               has_returns |-> n > 0]]

calculate_returns ==
    /\ pc = "returns"
    /\ returns' = DropFrequency(returns_fill(
                      merge_returns(return_invoices(observation_df),
                                    FrequencyOf(rfm))))
    /\ pc' = "labels"
    /\ UNCHANGED <<df, config, observation_df, outcome_df, eligible_customers,
                   cohort_report, rfm, behavioral, churn_labels, features,
                   error_log, error, output_file>>

\* ------------------------------------------------ Step 7: churn labels
active_customers(outcome) == { l.customer_id : l \in outcome }

purchase_customers(outcome) ==
    { l.customer_id : l \in { o \in outcome : o.quantity > 0 } }

churn_labels_of(eligible, outcome) ==
    [i \in 1..Len(eligible) |->
        [customer_id |-> eligible[i],
         churned |-> IF eligible[i] \in purchase_customers(outcome)
                     THEN 0 ELSE 1]]

define_churn_labels ==
    /\ pc = "labels"
    /\ churn_labels' = churn_labels_of(eligible_customers, outcome_df)
    /\ pc' = "merge"
    /\ UNCHANGED <<df, config, observation_df, outcome_df, eligible_customers,
                   cohort_report, rfm, behavioral, returns, features,
                   error_log, error, output_file>>

\* -------------------------------------------- Step 8: merge all features
fillnaq(v, fill) == IF v = NaNq THEN fill ELSE v

fill_basket(table) ==
    [i \in 1..Len(table) |->
        [table[i] EXCEPT !.avg_items_per_basket = fillnaq(@, <<0, 1>>),
                         !.avg_units_per_line = fillnaq(@, <<0, 1>>)]]

merge_features(rfm_t, behavioral_t, returns_t, labels_t) ==
    LET f1 == MergeLeft(rfm_t, behavioral_t,
                  [first_purchase_date |-> NaN, last_purchase_date |-> NaN,
                   avg_items_per_basket |-> NaNq, avg_units_per_line |-> NaNq,
                   days_as_customer |-> NaN, purchase_velocity |-> NaNq,
                   avg_days_between_purchases |-> NaNq])
        f2 == MergeLeft(f1, returns_t,
                  [n_return_invoices |-> NaN, return_amount |-> NaN,
                   return_rate |-> NaNq, has_returns |-> FALSE])
    IN MergeLeft(f2, labels_t, [churned |-> NaN])

merge_all_features ==
    /\ pc = "merge"
    /\ features' = fill_basket(
                       merge_features(rfm, behavioral, returns, churn_labels))
    /\ pc' = "quality"
    /\ UNCHANGED <<df, config, observation_df, outcome_df, eligible_customers,
                   cohort_report, rfm, behavioral, returns, churn_labels,
                   error_log, error, output_file>>

\* ------------------------------------------ Step 9: data quality checks
negative_recency(t) == \E i \in 1..Len(t) : t[i].recency < 0
missing_churn_labels(t) == \E i \in 1..Len(t) : t[i].churned = NaN
duplicate_customer_ids(t) ==
    \E i, j \in 1..Len(t) : i # j /\ t[i].customer_id = t[j].customer_id
negative_monetary_gross(t) == \E i \in 1..Len(t) : t[i].monetary_gross < 0

quality_errors(t) ==
    { m \in {"Negative recency values detected", "missing churn labels",
             "Duplicate customer_ids detected",
             "Negative monetary_gross detected"} :
        \/ m = "Negative recency values detected" /\ negative_recency(t)
        \/ m = "missing churn labels" /\ missing_churn_labels(t)
        \/ m = "Duplicate customer_ids detected" /\ duplicate_customer_ids(t)
        \/ m = "Negative monetary_gross detected"
           /\ negative_monetary_gross(t) }

\* Every check only logs: the script goes on to the report whatever it finds.
data_quality_checks ==
    /\ pc = "quality"
    /\ error_log' = error_log \cup quality_errors(features)
    /\ pc' = "report"
    /\ UNCHANGED <<df, config, observation_df, outcome_df, eligible_customers,
                   cohort_report, rfm, behavioral, returns, churn_labels,
                   features, error, output_file>>

\* ------------------------------------------------ Step 10: feature report
\* churn_rate = (churn_dist.get(1, 0) / len(df)) * 100 divides two Python
\* integers: an empty feature table (no eligible customer) raises
\* ZeroDivisionError.
generate_feature_report ==
    /\ pc = "report"
    /\ IF Len(features) = 0
       THEN /\ pc' = "aborted"
            /\ error' = "ZeroDivisionError"
       ELSE /\ pc' = "export"
            /\ error' = error
    /\ UNCHANGED <<df, config, observation_df, outcome_df, eligible_customers,
                   cohort_report, rfm, behavioral, returns, churn_labels,
                   features, error_log, output_file>>

\* ------------------------------------------------------ Step 11: export
export_features ==
    /\ pc = "export"
    /\ output_file' = features
    /\ pc' = "done"
    /\ UNCHANGED <<df, config, observation_df, outcome_df, eligible_customers,
                   cohort_report, rfm, behavioral, returns, churn_labels,
                   features, error_log, error>>

Next ==
    \/ split_by_time_window
    \/ check_data_leakage
    \/ cohort_filter
    \/ calculate_rfm
    \/ calculate_behavioral
    \/ calculate_returns
    \/ define_churn_labels
    \/ merge_all_features
    \/ data_quality_checks
    \/ generate_feature_report
    \/ export_features

Spec == Init /\ [][Next]_vars

\* ====================================================================
\* Properties.  They are stated over the input (df, config) alone, without
\* the operators of the steps above.
\* ====================================================================
LeakageError == "ValueError: Data leakage detected"

ObservationEnd == config.observation_end * TicksPerDay
OutcomeStart == config.outcome_start * TicksPerDay
ObservationWindow == { l \in df : l.invoice_date < ObservationEnd }
OutcomeWindow == { l \in df : l.invoice_date >= OutcomeStart }
Candidates == { l.customer_id : l \in ObservationWindow }
WindowOf(c) == { l \in ObservationWindow : l.customer_id = c }
InvoicesOf(c) == { l.invoice : l \in WindowOf(c) }
ReturnInvoicesOf(c) == { l.invoice : l \in { w \in WindowOf(c) : w.is_return } }
Earliest(c) == CHOOSE t \in { l.invoice_date : l \in WindowOf(c) } :
                   \A l \in WindowOf(c) : t <= l.invoice_date
Latest(c) == CHOOSE t \in { l.invoice_date : l \in WindowOf(c) } :
                 \A l \in WindowOf(c) : t >= l.invoice_date
TenureSatisfied(c) ==
    Earliest(c) <= ObservationEnd - config.min_tenure_days * TicksPerDay
FrequencySatisfied(c) == Cardinality(InvoicesOf(c)) >= config.min_frequency
EligibleSet ==
    { c \in Candidates : TenureSatisfied(c) /\ FrequencySatisfied(c) }
BuysInOutcome(c) ==
    \E l \in OutcomeWindow : l.customer_id = c /\ l.quantity > 0

RECURSIVE Total(_)
Total(S) ==
    IF S = {} THEN 0
    ELSE LET l == CHOOSE x \in S : TRUE IN l.total_amount + Total(S \ {l})

RowsOf(table, c) == { i \in 1..Len(table) : table[i].customer_id = c }
IsZeroQ(q) == q[1] = 0 /\ q[2] # 0

\* How far the script has come.
LeakageChecked == pc \notin {"split", "check_leakage"}
CohortDone ==
    \/ pc \in {"rfm", "behavioral", "returns", "labels", "merge", "quality",
               "report", "export", "done"}
    \/ pc = "aborted" /\ error = "ZeroDivisionError"
LabelsDone ==
    \/ pc \in {"merge", "quality", "report", "export", "done"}
    \/ pc = "aborted" /\ error = "ZeroDivisionError" /\ cohort_report.logged
MergeDone ==
    \/ pc \in {"quality", "report", "export", "done"}
    \/ pc = "aborted" /\ error = "ZeroDivisionError" /\ cohort_report.logged
NothingRanAfterSplit ==
    /\ eligible_customers = <<>>
    /\ ~cohort_report.logged
    /\ rfm = <<>> /\ behavioral = <<>> /\ returns = <<>>
    /\ churn_labels = <<>> /\ features = <<>>
    /\ output_file = <<>>

\* C1 (supporting fact): the data quality checks of step 9 never find a
\* fatal-class violation, so log_error is never called and the premise of C1
\* holds in no reachable state.
QualityChecksNeverFire == error_log = {}

\* C2: once the leakage guard has run, the script has stopped with the
\* leakage error exactly when both windows are non-empty and the latest
\* observation timestamp is not strictly before the earliest outcome
\* timestamp - in particular when a transaction lies in both windows - and
\* then no cohort filter, aggregation or export has run; otherwise the guard
\* passed.
C2_Leak ==
    /\ ObservationWindow # {}
    /\ OutcomeWindow # {}
    /\ \E o \in ObservationWindow :
          \E u \in OutcomeWindow : o.invoice_date >= u.invoice_date
C2_LeakageGuard ==
    LeakageChecked =>
        /\ (ObservationWindow \cap OutcomeWindow # {} => C2_Leak)
        /\ IF C2_Leak
           THEN pc = "aborted" /\ error = LeakageError /\ NothingRanAfterSplit
           ELSE error # LeakageError
C2_Witness ==
    /\ pc = "aborted"
    /\ error = LeakageError
    /\ ObservationWindow \cap OutcomeWindow # {}

\* C3: a customer with an observation-window transaction is eligible iff its
\* earliest observation timestamp is <= observation_end - min_tenure_days and
\* it has at least min_frequency distinct observation-window invoices.
C3_EligibleIff ==
    CohortDone =>
        /\ \A c \in Candidates :
              c \in Range(eligible_customers)
                  <=> (TenureSatisfied(c) /\ FrequencySatisfied(c))
        /\ Range(eligible_customers) \subseteq Candidates
C3_Witness ==
    /\ CohortDone
    /\ config.min_frequency = 2
    /\ \E c \in Range(eligible_customers) :
          Cardinality(InvoicesOf(c)) = config.min_frequency

\* C4: every eligible customer gets exactly one label; it is churned = 1 iff
\* the outcome window holds no line of that customer with quantity > 0, and
\* churned = 0 otherwise.
C4_ChurnLabel ==
    LabelsDone =>
        \A c \in EligibleSet :
            /\ Cardinality(RowsOf(churn_labels, c)) = 1
            /\ \A i \in RowsOf(churn_labels, c) :
                  churn_labels[i].churned = IF BuysInOutcome(c) THEN 0 ELSE 1
C4_Witness ==
    /\ LabelsDone
    /\ \E i \in 1..Len(churn_labels) :
          /\ churn_labels[i].churned = 1
          /\ \E l \in OutcomeWindow :
                l.customer_id = churn_labels[i].customer_id /\ l.quantity < 0

\* C5: the merged feature table has exactly one row per eligible customer, no
\* row of any other customer, and a churn label in every row.
C5_OneRowPerEligible ==
    MergeDone =>
        /\ \A c \in EligibleSet : Cardinality(RowsOf(features, c)) = 1
        /\ \A i \in 1..Len(features) :
              /\ features[i].customer_id \in EligibleSet
              /\ features[i].churned \in {0, 1}
C5_Witness ==
    /\ MergeDone
    /\ Len(features) >= 1
    /\ Candidates \ EligibleSet # {}

\* C6: recency is the number of calendar days from the date of the
\* customer's latest observation-window transaction to the observation_end
\* date, whatever the time of day of that transaction, and is >= 0.
C6_RecencyCalendarDays ==
    MergeDone =>
        \A i \in 1..Len(features) :
            /\ features[i].recency =
                   config.observation_end
                       - (Latest(features[i].customer_id) \div TicksPerDay)
            /\ features[i].recency >= 0

\* C7: in every row, n_return_invoices is the number of distinct
\* observation-window invoices of the customer with an is_return line,
\* frequency the number of all its distinct observation-window invoices,
\* return_rate their quotient; 0 <= n_return_invoices <= frequency,
\* frequency >= 1 and return_rate is in [0, 1].
C7_ReturnRate ==
    MergeDone =>
        \A i \in 1..Len(features) :
            LET r == features[i]
                n == Cardinality(ReturnInvoicesOf(r.customer_id))
                f == Cardinality(InvoicesOf(r.customer_id))
            IN /\ r.n_return_invoices = n
               /\ r.frequency = f
               /\ r.return_rate[2] # 0
               /\ r.return_rate[1] * f = n * r.return_rate[2]
               /\ 0 <= n /\ n <= f /\ f >= 1
               /\ 0 <= r.return_rate[1]
               /\ r.return_rate[1] <= r.return_rate[2]
C7_Witness ==
    /\ MergeDone
    /\ \E i \in 1..Len(features) :
          features[i].n_return_invoices = 1 /\ features[i].frequency = 2

\* C8: for an eligible customer whose observation-window lines all have a
\* non-zero total_amount, monetary_net + return_amount = monetary_gross, with
\* monetary_net the sum over all lines, monetary_gross the sum over the lines
\* with total_amount > 0 and return_amount the absolute value of the sum over
\* the is_return lines.
C8_MonetaryIdentity ==
    MergeDone =>
        \A i \in 1..Len(features) :
            LET r == features[i]
                w == WindowOf(r.customer_id)
            IN (\A l \in w : l.total_amount # 0) =>
                  /\ r.monetary_net = Total(w)
                  /\ r.monetary_gross = Total({ l \in w : l.total_amount > 0 })
                  /\ r.return_amount = Abs(Total({ l \in w : l.is_return }))
                  /\ r.monetary_net + r.return_amount = r.monetary_gross
C8_Witness ==
    /\ MergeDone
    /\ \E i \in 1..Len(features) :
          /\ features[i].return_amount > 0
          /\ features[i].monetary_gross > 0
          /\ \A l \in WindowOf(features[i].customer_id) : l.total_amount # 0

\* C9: an eligible customer without an is_return line in the observation
\* window is in the feature table with n_return_invoices = 0,
\* return_amount = 0, return_rate = 0 and has_returns false; an eligible
\* customer without a line of quantity > 0 is in it with
\* avg_items_per_basket = 0 and avg_units_per_line = 0.
C9_FillOnAbsence ==
    MergeDone =>
        \A c \in EligibleSet :
            /\ RowsOf(features, c) # {}
            /\ \A i \in RowsOf(features, c) :
                  LET r == features[i] IN
                  /\ (\A l \in WindowOf(c) : ~l.is_return) =>
                        /\ r.n_return_invoices = 0
                        /\ r.return_amount = 0
                        /\ IsZeroQ(r.return_rate)
                        /\ r.has_returns = FALSE
                  /\ (\A l \in WindowOf(c) : l.quantity <= 0) =>
                        /\ IsZeroQ(r.avg_items_per_basket)
                        /\ IsZeroQ(r.avg_units_per_line)
C9_Witness ==
    /\ MergeDone
    /\ \E c \in EligibleSet : \A l \in WindowOf(c) : ~l.is_return
    /\ \E c \in EligibleSet : \A l \in WindowOf(c) : l.quantity <= 0
    /\ Len(features) = 2

\* C10: the counts the cohort filter reports are consistent: total
\* candidates = eligible + filtered-out, and filtered-out = failed tenure +
\* failed frequency - failed both, a customer failing tenure iff
\* first_purchase > observation_end - min_tenure_days and failing frequency
\* iff its distinct-invoice count < min_frequency.
C10_CohortCounts ==
    cohort_report.logged =>
        LET failsTenure == { c \in Candidates : ~TenureSatisfied(c) }
            failsFrequency == { c \in Candidates : ~FrequencySatisfied(c) }
        IN /\ cohort_report.n_total = Cardinality(Candidates)
           /\ cohort_report.n_eligible = Cardinality(EligibleSet)
           /\ cohort_report.n_tenure_fail = Cardinality(failsTenure)
           /\ cohort_report.n_frequency_fail = Cardinality(failsFrequency)
           /\ cohort_report.n_both_fail =
                 Cardinality(failsTenure \cap failsFrequency)
           /\ cohort_report.n_total =
                 cohort_report.n_eligible + cohort_report.filtered_out
           /\ cohort_report.filtered_out =
                 cohort_report.n_tenure_fail + cohort_report.n_frequency_fail
                     - cohort_report.n_both_fail
C10_Witness ==
    /\ cohort_report.logged
    /\ cohort_report.n_both_fail >= 1
    /\ cohort_report.n_frequency_fail > cohort_report.n_both_fail

\* C11: on every input on which the leakage guard passes (and no fatal-class
\* check fires, which none ever does) the script runs through to the export
\* step - also with an empty observation window and with no eligible
\* customer - and the cohort report never fails: the only exception that can
\* end the script is the leakage error.
C11_RunsToExport == pc = "aborted" => error = LeakageError
====
